---- MODULE Spec2Model ----
(***************************************************************************)
(* The session engine of the breathing trainer (src/app.js, first          *)
(* implementation, lines 1-842): countdown, phase loop, pause / resume,    *)
(* combo advance and stop, together with the browser's scheduler           *)
(* (setInterval, setTimeout, requestAnimationFrame) that drives them.      *)
(*                                                                         *)
(* Time is Date.now() in whole seconds.  One animation frame is delivered  *)
(* per second of the clock: every pending frame callback runs once at      *)
(* every instant, and a timer runs at the instant it is due.  Handlers are *)
(* atomic (single-threaded JavaScript).                                    *)
(*                                                                         *)
(* Variables whose name starts with g, and ev, are history variables: the  *)
(* program does not hold them, the properties read them.                   *)
(*                                                                         *)
(* Spec is the program with its shipped catalog and one custom routine.    *)
(* SpecUnresolved adds a combo card that names a routine the catalog does  *)
(* not hold; SpecCustom runs uninterrupted sessions of every small custom  *)
(* routine.                                                                *)
(***************************************************************************)
EXTENDS Integers, Sequences, FiniteSets

\* ------------------------------------------------------------------ bounds

\* Date.now() when the page is loaded (seconds since 1970: far above 5).
Epoch == 6
\* The clock stops advancing Horizon seconds after the page is loaded.
Horizon == 17
\* Control calls that one run makes and the program accepts (a start, a
\* pause, a press of the stop button); a resume needs an accepted pause.
MaxCalls == 3
\* The store answers a saveTrainingHistory call within this many seconds.
MaxLatency == 1
\* The source multiplies durationMinutes by 60 (src/app.js:495); the model's
\* minute is shortened, with the routines' phases, so that a whole session
\* fits the horizon.
SecondsPerMinute == 6
\* The longest phase of the custom routines of the third specification.
MaxPhaseSeconds == 2

\* -------------------------------------------------------- program constants

CountdownFrom == 3
IntervalSeconds == 1
TransitionSeconds == 2
MinHistorySeconds == 5

\* The value of a variable that was never assigned (undefined), and of one
\* holding null, where the source leaves it so.
Undefined == -1

\* ----------------------------------------------------------------- catalog

Routine(id, minutes, inhale, holdIn, exhale, holdOut, label) ==
    [id |-> id, name |-> id, durationMinutes |-> minutes, inhale |-> inhale,
     holdIn |-> holdIn, exhale |-> exhale, holdOut |-> holdOut, holdInLabel |-> label]

\* null
NullRoutine == Routine("null", 0, 0, 0, 0, 0, "")

\* The built-in routines, with the shape of their phase lists kept (which
\* phases are skipped, which of two neighbours is the longer) and their
\* durations shortened.
builtInRoutines ==
    << Routine("lah", 1, 2, 0, 3, 0, ""),
       Routine("led", 1, 1, 0, 2, 0, ""),
       Routine("cyclic-sighing", 1, 2, 1, 3, 0, "TOP-UP INHALE"),
       Routine("box", 1, 1, 1, 1, 1, "") >>

Combo(id, routines, sound) ==
    [id |-> id, name |-> id, routines |-> routines, transitionSound |-> sound]

NullCombo == Combo("null", << >>, "")

routineCombos ==
    << Combo("morning", <<"lah", "led">>, "start"),
       Combo("evening", <<"led", "cyclic-sighing">>, "start") >>

\* The routines the user created, as the real-time listener delivers them:
\* handleCreateRoutine accepts any phase durations whose sum is not 0, so the
\* first phase may be longer than the last.
customRoutines ==
    << Routine("custom", 1, 2, 0, 1, 0, "") >>

\* Mutant of catalogOf: the custom routines come first.
catalogOf_customFirst(custom) == custom \o builtInRoutines

\* The callback of the real-time listener: [...builtInRoutines, ...customRoutines]
catalogOf(custom) == builtInRoutines \o custom

\* allAvailableRoutines after init()
allAvailableRoutines == catalogOf(customRoutines)

\* What the listener may have delivered by the time the catalog is read
\* during a session: the list of init(), or the list after the custom routine
\* was deleted and a document was added that carries the id of a built-in
\* routine and another duration.
CustomLists ==
    { customRoutines, << Routine("led", 2, 1, 0, 2, 0, "") >> }

\* allAvailableRoutines as a read during a session may find it.
CatalogReads == { catalogOf(custom) : custom \in CustomLists }

SeqRange(s) == { s[i] : i \in 1..Len(s) }

\* Array.prototype.find by id: the first match, or NullRoutine (undefined).
FindRoutine(list, id) ==
    IF \E i \in 1..Len(list) : list[i].id = id
    THEN list[CHOOSE i \in 1..Len(list) :
                  /\ list[i].id = id
                  /\ \A j \in 1..(i - 1) : list[j].id # id]
    ELSE NullRoutine

\* routine.durationMinutes * 60
routineDurationOf(routine) == routine.durationMinutes * SecondsPerMinute

\* Mutant of buildPhases: the phases of duration 0 stay in the list.
buildPhases_keepZero(routine) ==
    << [name |-> "BREATH IN", key |-> "in", duration |-> routine.inhale],
       [name |-> IF routine.holdInLabel # "" THEN routine.holdInLabel ELSE "HOLD",
        key |-> "holdIn", duration |-> routine.holdIn],
       [name |-> "BREATH OUT", key |-> "out", duration |-> routine.exhale],
       [name |-> "HOLD OUT", key |-> "holdOut", duration |-> routine.holdOut] >>

\* The four phases in their fixed order, those of duration 0 filtered out.
buildPhases(routine) ==
    SelectSeq(
        << [name |-> "BREATH IN", key |-> "in", duration |-> routine.inhale],
           [name |-> IF routine.holdInLabel # "" THEN routine.holdInLabel ELSE "HOLD",
            key |-> "holdIn", duration |-> routine.holdIn],
           [name |-> "BREATH OUT", key |-> "out", duration |-> routine.exhale],
           [name |-> "HOLD OUT", key |-> "holdOut", duration |-> routine.holdOut] >>,
        LAMBDA p : p.duration > 0)

\* Mutant of SumDurations: the target of the combo's first routine only.
SumDurations_firstOnly(ids, list) ==
    IF ids = << >> \/ FindRoutine(list, Head(ids)) = NullRoutine THEN 0
    ELSE routineDurationOf(FindRoutine(list, Head(ids)))

RECURSIVE SumDurations(_, _)
\* reduce over combo.routines: a routine that is not found counts 0.
SumDurations(ids, list) ==
    IF ids = << >> THEN 0
    ELSE (IF FindRoutine(list, Head(ids)) # NullRoutine
          THEN routineDurationOf(FindRoutine(list, Head(ids))) ELSE 0)
         + SumDurations(Tail(ids), list)

\* The segments of the combo's track, as initializeComboProgressBar and
\* updateProgressBar compute them from the catalog: segment i is
\* duration_i / totalDuration * 100 wide, written as the fraction num / den.
segmentWidths(combo, list) ==
    [i \in 1..Len(combo.routines) |->
        [num |-> 100 * SumDurations(<< combo.routines[i] >>, list),
         den |-> SumDurations(combo.routines, list)]]

\* ------------------------------------------------------------------- state

VARIABLES
    \* application state (src/app.js:19-35)
    isTrainingRunning, isPaused, pausedTime, pauseStartTime,
    currentRoutine, currentCombo, comboRoutineIndex,
    comboStartTime, routineStartTime, totalDurationSeconds, startTime,
    animationFrameId, currentPhase, phaseStartTime,
    \* the browser: Date.now(), and the callbacks that are scheduled
    clock, intervals, timeouts, frames,
    \* the history entries handed to saveTrainingHistory since the last
    \* accepted start
    submitted,
    \* the saveTrainingHistory calls whose promise is not settled yet
    saves,
    \* history variables
    gSession, gState, gStart, gPaused, gPausedAtRoutineStart, gCalls, ev

appVars == << isTrainingRunning, isPaused, pausedTime, pauseStartTime,
              currentRoutine, currentCombo, comboRoutineIndex,
              comboStartTime, routineStartTime, totalDurationSeconds, startTime,
              animationFrameId, currentPhase, phaseStartTime >>
schedVars == << intervals, timeouts, frames >>
ghostVars == << gSession, gState, gStart, gPaused, gPausedAtRoutineStart, gCalls >>
vars == << appVars, clock, schedVars, submitted, saves, ghostVars, ev >>

Init ==
    /\ isTrainingRunning = FALSE
    /\ isPaused = FALSE
    /\ pausedTime = 0
    /\ pauseStartTime = 0
    /\ currentRoutine = NullRoutine
    /\ currentCombo = NullCombo
    /\ comboRoutineIndex = 0
    /\ comboStartTime = 0
    /\ routineStartTime = 0
    /\ totalDurationSeconds = 0
    /\ startTime = 0
    /\ animationFrameId = 0
    /\ currentPhase = Undefined
    /\ phaseStartTime = 0
    /\ clock = Epoch
    /\ intervals = << >>
    /\ timeouts = << >>
    /\ frames = << >>
    /\ submitted = << >>
    /\ saves = << >>
    /\ gSession = 0
    /\ gState = "Idle"
    /\ gStart = 0
    /\ gPaused = 0
    /\ gPausedAtRoutineStart = 0
    /\ gCalls = 0
    /\ ev = [op |-> "init", stop |-> [called |-> FALSE], cues |-> << >>]

\* --------------------------------------------------------------- scheduler

RemoveAt(s, i) == SubSeq(s, 1, i - 1) \o SubSeq(s, i + 1, Len(s))

\* requestAnimationFrame(updateLoop), its handle assigned to animationFrameId:
\* the new request is the one the handle denotes, and runs at the next frame.
requestAnimationFrame(pending, loop, phases, sid) ==
    Append([i \in 1..Len(pending) |-> [pending[i] EXCEPT !.held = FALSE]],
           [loop |-> loop, phases |-> phases, due |-> FALSE, held |-> TRUE, sid |-> sid])

\* cancelAnimationFrame(animationFrameId): drops the request the handle
\* denotes, when that request is still pending.
cancelAnimationFrame(pending) == SelectSeq(pending, LAMBDA f : ~f.held)

NothingDue ==
    /\ \A i \in 1..Len(frames) : ~frames[i].due
    /\ \A i \in 1..Len(intervals) : intervals[i].due > clock
    /\ \A i \in 1..Len(timeouts) : timeouts[i].due > clock

\* A session runs, or a callback is pending.
Live == isTrainingRunning \/ intervals # << >> \/ timeouts # << >> \/ frames # << >>

\* One second passes: every pending frame callback becomes due.
secondPasses ==
    /\ NothingDue
    /\ Live
    /\ \A i \in 1..Len(saves) : saves[i].by > clock
    /\ clock' = clock + 1
    /\ frames' = [i \in 1..Len(frames) |-> [frames[i] EXCEPT !.due = TRUE]]
    /\ gPaused' = IF isPaused THEN gPaused + 1 ELSE gPaused
    /\ ev' = [op |-> "tock", stop |-> [called |-> FALSE], cues |-> << >>]
    /\ UNCHANGED << appVars, intervals, timeouts, submitted, saves,
                    gSession, gState, gStart, gPausedAtRoutineStart, gCalls >>

Tock == clock < Epoch + Horizon /\ secondPasses

\* ------------------------------------------------------------------- stop

\* pausedTime, with the pause that is still open at time now added.
effectivePaused(now) ==
    IF isPaused THEN pausedTime + (now - pauseStartTime) ELSE pausedTime

\* stopTraining: (Date.now() - startTime) / 1000 - finalPausedTime
actualDurationSeconds(now) == (now - startTime) - effectivePaused(now)

\* Mutant of savesHistory: the threshold is met at 5 seconds already.
savesHistory_atFive(now) ==
    /\ currentRoutine # NullRoutine
    /\ actualDurationSeconds(now) >= MinHistorySeconds

\* stopTraining: whether the entry is handed to saveTrainingHistory.
savesHistory(now) ==
    /\ currentRoutine # NullRoutine
    /\ actualDurationSeconds(now) > MinHistorySeconds

\* Mutant of historyEntry: every entry is marked completed.
historyEntry_alwaysCompleted(now, completed) ==
    [name |-> IF currentCombo # NullCombo THEN currentCombo.name ELSE currentRoutine.name,
     actualDurationSeconds |-> actualDurationSeconds(now),
     totalTargetSeconds |-> IF currentCombo # NullCombo
                            THEN totalDurationSeconds
                            ELSE routineDurationOf(currentRoutine),
     completed |-> TRUE]

historyEntry(now, completed) ==
    [name |-> IF currentCombo # NullCombo THEN currentCombo.name ELSE currentRoutine.name,
     actualDurationSeconds |-> actualDurationSeconds(now),
     totalTargetSeconds |-> IF currentCombo # NullCombo
                            THEN totalDurationSeconds
                            ELSE routineDurationOf(currentRoutine),
     completed |-> completed]

NoStop == [called |-> FALSE]

\* The state in which stopTraining is called, for the properties.  trueActual
\* is the time since the session left its countdown less the time it spent
\* paused.
StopInfo(completed) ==
    [called |-> TRUE, completed |-> completed, inState |-> gState,
     wasRunning |-> isTrainingRunning, wasPaused |-> isPaused,
     entriesBefore |-> Len(submitted),
     trueActual |-> (clock - gStart) - gPaused,
     pausedBeforeRun |-> gPausedAtRoutineStart,
     calls |-> gCalls]

\* stopTraining(completed), called when the pending frame requests are
\* framesNow.  It writes the running flag, the pause state and the held frame
\* request, and nothing else: no timer is cleared, currentRoutine, startTime
\* and the other session fields keep their values.
stopTraining(completed, framesNow) ==
    /\ isTrainingRunning' = FALSE
    /\ frames' = IF animationFrameId # 0 THEN cancelAnimationFrame(framesNow) ELSE framesNow
    /\ submitted' = IF savesHistory(clock)
                    THEN Append(submitted, historyEntry(clock, completed))
                    ELSE submitted
    /\ saves' = IF savesHistory(clock)
                THEN Append(saves, [by |-> clock + MaxLatency])
                ELSE saves
    /\ isPaused' = FALSE
    /\ pausedTime' = 0
    /\ pauseStartTime' = 0
    /\ gState' = "Idle"
    /\ gStart' = 0
    /\ gPaused' = 0
    /\ gPausedAtRoutineStart' = 0

\* The stop button: stopTraining(false), in any state.
StopButton ==
    /\ NothingDue
    /\ gCalls < MaxCalls
    /\ gCalls' = gCalls + 1
    /\ stopTraining(FALSE, frames)
    /\ ev' = [op |-> "stop", stop |-> StopInfo(FALSE), cues |-> << >>]
    /\ UNCHANGED << currentRoutine, currentCombo, comboRoutineIndex, comboStartTime,
                    routineStartTime, totalDurationSeconds, startTime, animationFrameId,
                    currentPhase, phaseStartTime, clock, intervals, timeouts,
                    gSession >>

\* --------------------------------------------------------------- countdown

\* What the user can select: a routine card, or a combo card, which passes the
\* combo's first routine (renderRoutineSelector).
Selections ==
    { << r, NullCombo >> : r \in SeqRange(allAvailableRoutines) }
    \cup { << FindRoutine(allAvailableRoutines, c.routines[1]), c >> :
             c \in { d \in SeqRange(routineCombos) :
                       FindRoutine(allAvailableRoutines, d.routines[1]) # NullRoutine } }

\* startCountdown(routine, combo), rejected while a session is running.
startCountdown(routine, combo) ==
    IF isTrainingRunning
    THEN /\ ev' = [op |-> "start", accepted |-> FALSE, stop |-> NoStop, cues |-> << >>]
         /\ UNCHANGED << appVars, clock, schedVars, submitted, saves, ghostVars >>
    ELSE /\ gCalls < MaxCalls
         /\ gCalls' = gCalls + 1
         /\ currentRoutine' = routine
         /\ currentCombo' = combo
         /\ comboRoutineIndex' = IF combo # NullCombo THEN 0 ELSE -1
         /\ isTrainingRunning' = TRUE
         /\ intervals' = Append(intervals, [countdown |-> CountdownFrom,
                                            due |-> clock + IntervalSeconds,
                                            started |-> clock,
                                            sid |-> gSession + 1])
         /\ submitted' = << >>
         /\ UNCHANGED saves
         /\ gSession' = gSession + 1
         /\ gState' = "Countdown"
         /\ gStart' = 0
         /\ gPaused' = 0
         /\ gPausedAtRoutineStart' = 0
         /\ ev' = [op |-> "start", accepted |-> TRUE, stop |-> NoStop, cues |-> <<"start">>]
         /\ UNCHANGED << isPaused, pausedTime, pauseStartTime, comboStartTime,
                         routineStartTime, totalDurationSeconds, startTime,
                         animationFrameId, currentPhase, phaseStartTime,
                         clock, timeouts, frames >>

\* The cards whose click is told apart: while a session runs every click is
\* rejected alike, so one card stands for all.
Clickable(cards) == IF isTrainingRunning THEN { CHOOSE sel \in cards : TRUE } ELSE cards

Start == NothingDue /\ \E sel \in Clickable(Selections) : startCountdown(sel[1], sel[2])

\* Whether a callback created by session sid belongs to a session that was
\* stopped, or to an earlier session than the current one.
Stale(sid) == sid # gSession \/ gState = "Idle"

\* The interval callback while the countdown is above 1.
CountdownStep ==
    \E i \in 1..Len(intervals) :
        /\ intervals[i].due <= clock
        /\ intervals[i].countdown - 1 > 0
        /\ intervals' = [intervals EXCEPT ![i] = [@ EXCEPT !.countdown = @ - 1,
                                                           !.due = clock + IntervalSeconds]]
        /\ ev' = [op |-> "countdown", n |-> intervals[i].countdown - 1,
                  elapsed |-> clock - intervals[i].started,
                  stale |-> Stale(intervals[i].sid), stop |-> NoStop, cues |-> <<"start">>]
        /\ UNCHANGED << appVars, clock, timeouts, frames, submitted, saves, ghostVars >>

\* The catalog is read only for a combo (src/app.js:270, 326, 425).
ComboCatalogReads ==
    IF currentCombo # NullCombo THEN CatalogReads ELSE {allAvailableRoutines}

\* transitionToFirstPhase(phases): the cue of the first phase.
firstPhaseCue(phases) == << [key |-> phases[1].key, duration |-> phases[1].duration] >>

\* transitionCircle(scaleTarget, duration): the circle is set to go to the
\* scale in the given time.  Scales and times are in tenths (1.0 is 10, 0.5
\* is 5, 0.1 s is 1).
transitionCircle(scaleTarget, duration) == [scale |-> scaleTarget, duration |-> duration]

\* The chain of tests on the key of the phase entered, the same in
\* transitionToFirstPhase and in both update loops.
circleOf(phase) ==
    IF phase.key = "in" THEN << transitionCircle(10, 10 * phase.duration) >>
    ELSE IF phase.key = "holdIn" THEN << transitionCircle(10, 1) >>
    ELSE IF phase.key = "out" THEN << transitionCircle(5, 10 * phase.duration) >>
    ELSE IF phase.key = "holdOut" THEN << transitionCircle(5, 1) >>
    ELSE << >>

firstPhaseCircle(phases) == circleOf(phases[1])

\* runTraining(), called by the interval callback of session sid.
runTraining(sid, catalog) ==
    LET phases == buildPhases(currentRoutine) IN
    /\ startTime' = clock
    /\ routineStartTime' = clock
    /\ comboStartTime' = IF currentCombo # NullCombo THEN clock ELSE 0
    /\ totalDurationSeconds' =
         IF currentCombo # NullCombo
         THEN SumDurations(currentCombo.routines, catalog)
         ELSE routineDurationOf(currentRoutine)
    /\ currentPhase' = 0
    /\ phaseStartTime' = clock
    /\ frames' = requestAnimationFrame(frames, "run", phases, sid)
    /\ animationFrameId' = 1

\* The interval callback when the countdown reaches 0: clearInterval, runTraining.
CountdownEnd ==
    \E i \in 1..Len(intervals), catalog \in ComboCatalogReads :
        LET sid == intervals[i].sid
            own == sid = gSession /\ gState = "Countdown"
        IN
        /\ intervals[i].due <= clock
        /\ intervals[i].countdown - 1 <= 0
        /\ intervals' = RemoveAt(intervals, i)
        /\ runTraining(sid, catalog)
        /\ gState' = IF own THEN "Running" ELSE gState
        /\ gStart' = IF own THEN clock ELSE gStart
        /\ gPausedAtRoutineStart' = gPaused
        /\ ev' = [op |-> "run", n |-> intervals[i].countdown - 1,
                  elapsed |-> clock - intervals[i].started,
                  catalogChanged |-> catalog # allAvailableRoutines,
                  segments |-> segmentWidths(currentCombo, catalog),
                  stale |-> Stale(sid), stop |-> NoStop,
                  circle |-> firstPhaseCircle(buildPhases(currentRoutine)),
                  cues |-> firstPhaseCue(buildPhases(currentRoutine))]
        /\ UNCHANGED << isTrainingRunning, isPaused, pausedTime, pauseStartTime,
                        currentRoutine, currentCombo, comboRoutineIndex,
                        clock, timeouts, submitted, saves, gSession, gPaused, gCalls >>

\* ------------------------------------------------------------ pause, resume

\* Mutant of pauseTraining: a pause is accepted while already paused.
pauseTraining_whilePaused ==
    /\ isTrainingRunning
    /\ isPaused' = TRUE
    /\ pauseStartTime' = clock
    /\ ev' = [op |-> "pause", accepted |-> TRUE, stop |-> [called |-> FALSE], cues |-> << >>]
    /\ UNCHANGED << isTrainingRunning, pausedTime, currentRoutine, currentCombo,
                    comboRoutineIndex, comboStartTime, routineStartTime,
                    totalDurationSeconds, startTime, animationFrameId,
                    currentPhase, phaseStartTime, clock, schedVars, submitted, saves,
                    ghostVars >>

\* pauseTraining, rejected when no session runs or it is paused already.
pauseTraining ==
    IF ~isTrainingRunning \/ isPaused
    THEN /\ ev' = [op |-> "pause", accepted |-> FALSE, stop |-> NoStop, cues |-> << >>]
         /\ UNCHANGED << appVars, clock, schedVars, submitted, saves, ghostVars >>
    ELSE /\ gCalls < MaxCalls
         /\ gCalls' = gCalls + 1
         /\ isPaused' = TRUE
         /\ pauseStartTime' = clock
         /\ ev' = [op |-> "pause", accepted |-> TRUE, stop |-> NoStop, cues |-> << >>]
         /\ UNCHANGED << isTrainingRunning, pausedTime, currentRoutine, currentCombo,
                         comboRoutineIndex, comboStartTime, routineStartTime,
                         totalDurationSeconds, startTime, animationFrameId,
                         currentPhase, phaseStartTime, clock, schedVars, submitted, saves,
                         gSession, gState, gStart, gPaused, gPausedAtRoutineStart >>

\* Mutant of pausedTimeAfterResume: the last pause replaces the earlier ones.
pausedTimeAfterResume_overwrite(now) == now - pauseStartTime

\* resumeTraining: pausedTime += pauseDuration
pausedTimeAfterResume(now) == pausedTime + (now - pauseStartTime)

\* resumeTraining.  After the pause state is written the handler reads
\* phases[currentPhase].name, which throws when the index is not in the list.
resumeTraining ==
    IF ~isTrainingRunning \/ ~isPaused
    THEN /\ ev' = [op |-> "resume", accepted |-> FALSE, stop |-> NoStop, cues |-> << >>]
         /\ UNCHANGED << appVars, clock, schedVars, submitted, saves, ghostVars >>
    ELSE /\ pausedTime' = pausedTimeAfterResume(clock)
         /\ isPaused' = FALSE
         /\ ev' = [op |-> "resume", accepted |-> TRUE, stop |-> NoStop, cues |-> << >>,
                   threw |-> ~(currentPhase \in 0..(Len(buildPhases(currentRoutine)) - 1))]
         /\ UNCHANGED << isTrainingRunning, pauseStartTime, currentRoutine, currentCombo,
                         comboRoutineIndex, comboStartTime, routineStartTime,
                         totalDurationSeconds, startTime, animationFrameId,
                         currentPhase, phaseStartTime, clock, schedVars, submitted, saves,
                         ghostVars >>

\* -------------------------------------------------------------- updateLoop

\* The frame callback that runs next: the first one that is due (callbacks of
\* one frame run in the order of their requests).
DueFrames == { i \in 1..Len(frames) : frames[i].due }
NextFrame == CHOOSE i \in DueFrames : \A j \in DueFrames : i <= j

timeSinceLastPhase == clock - phaseStartTime

\* phases[currentPhase] exists in the phase list the callback closed over.
phaseIndexValid(f) == currentPhase \in 0..(Len(f.phases) - 1)

phaseDue(f) == timeSinceLastPhase >= f.phases[currentPhase + 1].duration

\* Mutant of advance: the last phase of the list is terminal.
advance_saturating(phases, index) ==
    IF index + 1 < Len(phases) THEN index + 1 ELSE index

\* Mutant of advance: the cycle is walked backwards.
advance_backward(phases, index) == (index + Len(phases) - 1) % Len(phases)

\* (currentPhase + 1) % phases.length
advance(phases, index) == (index + 1) % Len(phases)

\* currentPhase after the tick: advanced when the phase is over.
phaseAfterTick(f) ==
    IF phaseDue(f) THEN advance(f.phases, currentPhase) ELSE currentPhase

phaseStartAfterTick(f) == IF phaseDue(f) THEN clock ELSE phaseStartTime

\* Elapsed times as the two update loops compute them: the loop of runTraining
\* subtracts pausedTime, the loop of startNextComboRoutine does not.
elapsedTotalTime(f) ==
    IF f.loop = "run"
    THEN (IF currentCombo # NullCombo /\ comboStartTime # 0
          THEN (clock - comboStartTime) - effectivePaused(clock)
          ELSE (clock - startTime) - effectivePaused(clock))
    ELSE (IF comboStartTime # 0 THEN clock - comboStartTime ELSE 0)

elapsedRoutineTime(f) ==
    IF f.loop = "run"
    THEN (clock - routineStartTime) - effectivePaused(clock)
    ELSE clock - routineStartTime

\* phases[currentPhase].duration - timeSinceLastPhase, read after the advance:
\* the duration is the new phase's, the time is the one measured before it.
remainingTimeInCurrentPhase(f) ==
    f.phases[phaseAfterTick(f) + 1].duration - timeSinceLastPhase

\* The routine's (or, without a combo, the session's) time is up.
timeIsUp(f) ==
    IF f.loop = "run"
    THEN (IF currentCombo # NullCombo
          THEN elapsedRoutineTime(f) >= routineDurationOf(currentRoutine)
          ELSE elapsedTotalTime(f) >= totalDurationSeconds)
    ELSE elapsedRoutineTime(f) >= routineDurationOf(currentRoutine)

\* Mutant of completionDue: the phase must be over by more than nothing.
completionDue_strict(f) == timeIsUp(f) /\ remainingTimeInCurrentPhase(f) < 0

completionDue(f) == timeIsUp(f) /\ remainingTimeInCurrentPhase(f) <= 0

\* What the tick decides: "throw" (a TypeError leaves the callback), "advance"
\* (startNextComboRoutine), "stop" (stopTraining(true)) or "continue".
tickOutcome(f) ==
    IF ~phaseIndexValid(f) THEN "throw"
    ELSE IF ~completionDue(f) THEN "continue"
    ELSE IF f.loop = "combo" /\ currentCombo = NullCombo THEN "throw"
    ELSE IF currentCombo = NullCombo THEN "stop"
    ELSE IF comboRoutineIndex < Len(currentCombo.routines) - 1 THEN "advance"
    ELSE "stop"

\* Mutant of playSound: a failure of the synthesizer leaves the function as an
\* exception of the caller.
playSound_throws(fails) == IF fails THEN "thrown" ELSE "fulfilled"

\* playSound(type, duration), given whether the synthesizer fails: an async
\* function whose whole body is in try / catch returns a promise that is
\* fulfilled either way (the failure is logged).  Every call in app.js adds
\* .catch to the promise.
playSound(fails) == "fulfilled"

\* The failures a tick can meet: a cue is played only when the phase advances.
CueFailures(f) == IF phaseIndexValid(f) /\ phaseDue(f) THEN BOOLEAN ELSE {FALSE}

\* What a tick draws from its environment: whether its cue fails, and the
\* catalog that updateProgressBar reads.
TickInputs(f) == [fails : CueFailures(f), catalog : ComboCatalogReads]

\* What the tick does: what it decides, unless the call of playSound throws.
tickResult(f, fails) ==
    IF phaseIndexValid(f) /\ phaseDue(f) /\ playSound(fails) = "thrown"
    THEN "throw"
    ELSE tickOutcome(f)

phaseCue(f) ==
    IF phaseIndexValid(f) /\ phaseDue(f)
    THEN << [key |-> f.phases[phaseAfterTick(f) + 1].key,
             duration |-> f.phases[phaseAfterTick(f) + 1].duration] >>
    ELSE << >>

\* The circle transition of the tick: that of the phase it enters, if any.
phaseCircle(f) ==
    IF phaseIndexValid(f) /\ phaseDue(f)
    THEN circleOf(f.phases[phaseAfterTick(f) + 1])
    ELSE << >>

\* Mutant of progressPercent: the quotient without Math.min.
progressPercent_unclamped(elapsed, total) ==
    [num |-> elapsed * 100, den |-> total]

\* Math.min((elapsedTotalTime / totalDurationSeconds) * 100, 100), as the
\* fraction num / den.  A division by zero gives Infinity (clamped to 100),
\* NaN or -Infinity, written with den = 0.
progressPercent(elapsed, total) ==
    IF total = 0
    THEN (IF elapsed > 0 THEN [num |-> 100, den |-> 1] ELSE [num |-> elapsed, den |-> 0])
    ELSE IF elapsed * 100 <= 100 * total
         THEN [num |-> elapsed * 100, den |-> total]
         ELSE [num |-> 100, den |-> 1]

\* The palette of updateProgressBar has four colours.
PaletteSize == 4

\* The loop of updateProgressBar over the segments 0..comboRoutineIndex, from
\* segment i (counted from 1) with the segments before it adding up to
\* cumulative: the colour stops it pushes, as spans.  Widths and percent are
\* numerators over one common denominator.
RECURSIVE filledColorStops(_, _, _, _, _)
filledColorStops(widths, percent, index, i, cumulative) ==
    IF i > index + 1 \/ i > Len(widths) THEN << >>
    ELSE LET routineEnd == IF cumulative + widths[i] <= percent
                           THEN cumulative + widths[i] ELSE percent
             stops == IF routineEnd > cumulative
                      THEN << [colour |-> (i - 1) % PaletteSize,
                               from |-> cumulative, to |-> routineEnd] >>
                      ELSE << >>
         IN IF cumulative + widths[i] >= percent
            THEN stops
            ELSE stops \o filledColorStops(widths, percent, index, i + 1,
                                           cumulative + widths[i])

\* The spans a tick emits for a combo: segment widths and progress percent
\* brought to the denominator segments.den * progress.den.
emittedSpans(segments, progress, index) ==
    filledColorStops([i \in 1..Len(segments) |-> segments[i].num * progress.den],
                     progress.num * (IF segments = << >> THEN 1 ELSE segments[1].den),
                     index, 1, 0)

\* What the tick of callback f measured, for the properties.  trueRoutine is
\* the wall-clock time since routineStartTime less the time paused since then.
TickInfo(f, inp, outcome, stop, cues) ==
    [op |-> "tick", loop |-> f.loop, stale |-> Stale(f.sid), inState |-> gState,
     ran |-> TRUE, outcome |-> outcome,
     cueFailed |-> inp.fails, decided |-> tickOutcome(f),
     catalogChanged |-> inp.catalog # allAvailableRoutines,
     segments |-> segmentWidths(currentCombo, inp.catalog),
     spans |-> emittedSpans(segmentWidths(currentCombo, inp.catalog),
                            progressPercent(elapsedTotalTime(f), totalDurationSeconds),
                            comboRoutineIndex),
     phaseAfter |-> IF phaseIndexValid(f) THEN phaseAfterTick(f) ELSE currentPhase,
     timeSince |-> timeSinceLastPhase,
     phaseBefore |-> currentPhase,
     comboIndexBefore |-> comboRoutineIndex,
     durBefore |-> IF phaseIndexValid(f) THEN f.phases[currentPhase + 1].duration ELSE 0,
     indexValid |-> phaseIndexValid(f),
     advanced |-> phaseIndexValid(f) /\ phaseDue(f),
     elapsedRoutine |-> elapsedRoutineTime(f),
     elapsedTotal |-> elapsedTotalTime(f),
     routineDuration |-> routineDurationOf(currentRoutine),
     totalTarget |-> totalDurationSeconds,
     progress |-> progressPercent(elapsedTotalTime(f), totalDurationSeconds),
     trueRoutine |-> (clock - routineStartTime) - (gPaused - gPausedAtRoutineStart),
     trueTotal |-> (clock - gStart) - gPaused,
     circle |-> phaseCircle(f),
     stop |-> stop, cues |-> cues]

\* The callback returns at once: the session is stopped, or paused (then it
\* requests the next frame and does nothing else).
FrameSkipped ==
    /\ DueFrames # {}
    /\ ~isTrainingRunning \/ isPaused
    /\ LET f == frames[NextFrame]
           rest == RemoveAt(frames, NextFrame)
       IN /\ frames' = IF isPaused
                       THEN requestAnimationFrame(rest, f.loop, f.phases, f.sid)
                       ELSE rest
          /\ animationFrameId' = IF isPaused THEN 1 ELSE animationFrameId
          /\ ev' = [op |-> "tick", loop |-> f.loop, stale |-> Stale(f.sid),
                    inState |-> gState, ran |-> FALSE, outcome |-> "skip",
                    stop |-> NoStop, cues |-> << >>]
    /\ UNCHANGED << isTrainingRunning, isPaused, pausedTime, pauseStartTime,
                    currentRoutine, currentCombo, comboRoutineIndex, comboStartTime,
                    routineStartTime, totalDurationSeconds, startTime,
                    currentPhase, phaseStartTime, clock, intervals, timeouts,
                    submitted, saves, ghostVars >>

\* The tick advances the phase if it is over, and requests the next frame.
FrameContinue ==
    /\ DueFrames # {}
    /\ isTrainingRunning /\ ~isPaused
    /\ LET f == frames[NextFrame]
           rest == RemoveAt(frames, NextFrame)
       IN \E inp \in TickInputs(f) :
          /\ tickResult(f, inp.fails) = "continue"
          /\ phaseStartTime' = phaseStartAfterTick(f)
          /\ currentPhase' = phaseAfterTick(f)
          /\ frames' = requestAnimationFrame(rest, f.loop, f.phases, f.sid)
          /\ animationFrameId' = 1
          /\ ev' = TickInfo(f, inp, "continue", NoStop, phaseCue(f))
    /\ UNCHANGED << isTrainingRunning, isPaused, pausedTime, pauseStartTime,
                    currentRoutine, currentCombo, comboRoutineIndex, comboStartTime,
                    routineStartTime, totalDurationSeconds, startTime,
                    clock, intervals, timeouts, submitted, saves, ghostVars >>

\* A TypeError leaves the callback: phases[currentPhase] is undefined (nothing
\* was written yet), or currentCombo is null in the loop of
\* startNextComboRoutine (the phase was advanced already).  No frame is
\* requested, nothing is caught.
FrameThrow ==
    /\ DueFrames # {}
    /\ isTrainingRunning /\ ~isPaused
    /\ LET f == frames[NextFrame]
           rest == RemoveAt(frames, NextFrame)
       IN \E inp \in TickInputs(f) :
          /\ tickResult(f, inp.fails) = "throw"
          /\ phaseStartTime' = IF phaseIndexValid(f) THEN phaseStartAfterTick(f)
                               ELSE phaseStartTime
          /\ currentPhase' = IF phaseIndexValid(f) THEN phaseAfterTick(f) ELSE currentPhase
          /\ frames' = rest
          /\ ev' = TickInfo(f, inp, "throw", NoStop, phaseCue(f))
    /\ UNCHANGED << isTrainingRunning, isPaused, pausedTime, pauseStartTime,
                    currentRoutine, currentCombo, comboRoutineIndex, comboStartTime,
                    routineStartTime, totalDurationSeconds, startTime, animationFrameId,
                    clock, intervals, timeouts, submitted, saves, ghostVars >>

\* The tick ends the session: stopTraining(true).
FrameComplete ==
    /\ DueFrames # {}
    /\ isTrainingRunning /\ ~isPaused
    /\ LET f == frames[NextFrame]
           rest == RemoveAt(frames, NextFrame)
       IN \E inp \in TickInputs(f) :
          /\ tickResult(f, inp.fails) = "stop"
          /\ phaseStartTime' = phaseStartAfterTick(f)
          /\ currentPhase' = phaseAfterTick(f)
          /\ stopTraining(TRUE, rest)
          /\ ev' = TickInfo(f, inp, "stop", StopInfo(TRUE), phaseCue(f))
    /\ UNCHANGED << currentRoutine, currentCombo, comboRoutineIndex, comboStartTime,
                    routineStartTime, totalDurationSeconds, startTime, animationFrameId,
                    clock, intervals, timeouts, gSession, gCalls >>

\* -------------------------------------------------------------- combo advance

\* Mutant of nextComboRoutine: the id is looked up among the custom routines
\* only.
nextComboRoutine_customOnly(catalog) ==
    FindRoutine(SubSeq(catalog, Len(builtInRoutines) + 1, Len(catalog)),
                currentCombo.routines[comboRoutineIndex + 2])

\* startNextComboRoutine, first half: the routine of the next index is looked
\* up in the catalog as it is when the tick runs.
nextComboRoutine(catalog) ==
    FindRoutine(catalog, currentCombo.routines[comboRoutineIndex + 2])

transitionCue ==
    IF currentCombo.transitionSound # ""
    THEN << [key |-> currentCombo.transitionSound, duration |-> 0] >> ELSE << >>

\* The tick moves to the next routine of the combo: startNextComboRoutine()
\* increments the index and either schedules the switch in 2 seconds or, the
\* routine not being in the catalog, calls stopTraining(false).
FrameComboAdvance ==
    /\ DueFrames # {}
    /\ isTrainingRunning /\ ~isPaused
    /\ LET f == frames[NextFrame]
           rest == RemoveAt(frames, NextFrame)
       IN \E inp \in TickInputs(f) :
          /\ tickResult(f, inp.fails) = "advance"
          /\ phaseStartTime' = phaseStartAfterTick(f)
          /\ currentPhase' = phaseAfterTick(f)
          /\ comboRoutineIndex' = comboRoutineIndex + 1
          /\ IF nextComboRoutine(inp.catalog) # NullRoutine
             THEN /\ timeouts' = Append(timeouts, [due |-> clock + TransitionSeconds,
                                                   nextRoutine |-> nextComboRoutine(inp.catalog),
                                                   sid |-> f.sid])
                  /\ frames' = rest
                  /\ ev' = TickInfo(f, inp, "advance", NoStop, phaseCue(f) \o transitionCue)
                  /\ UNCHANGED << isTrainingRunning, isPaused, pausedTime, pauseStartTime,
                                  submitted, saves, gState, gStart, gPaused,
                                  gPausedAtRoutineStart >>
             ELSE /\ stopTraining(FALSE, rest)
                  /\ ev' = TickInfo(f, inp, "abort", StopInfo(FALSE), phaseCue(f))
                  /\ UNCHANGED timeouts
    /\ UNCHANGED << currentRoutine, currentCombo, comboStartTime,
                    routineStartTime, totalDurationSeconds, startTime, animationFrameId,
                    clock, intervals, gSession, gCalls >>

\* The timeout callback of startNextComboRoutine, 2 seconds later: the next
\* routine becomes current and a new update loop is started.
ComboTimeout ==
    \E i \in 1..Len(timeouts) :
        LET t == timeouts[i]
            phases == buildPhases(t.nextRoutine)
        IN
        /\ t.due <= clock
        /\ timeouts' = RemoveAt(timeouts, i)
        /\ currentRoutine' = t.nextRoutine
        /\ routineStartTime' = clock
        /\ currentPhase' = 0
        /\ phaseStartTime' = clock
        /\ frames' = requestAnimationFrame(frames, "combo", phases, t.sid)
        /\ animationFrameId' = 1
        /\ gPausedAtRoutineStart' = gPaused
        /\ ev' = [op |-> "timeout", stale |-> Stale(t.sid), stop |-> NoStop,
                  circle |-> firstPhaseCircle(phases),
                  cues |-> firstPhaseCue(phases)]
        /\ UNCHANGED << isTrainingRunning, isPaused, pausedTime, pauseStartTime,
                        currentCombo, comboRoutineIndex, comboStartTime,
                        totalDurationSeconds, startTime, clock, intervals, submitted, saves,
                        gSession, gState, gStart, gPaused, gCalls >>

\* ------------------------------------------------------- history submission

\* How a saveTrainingHistory promise settles: fulfilled with success,
\* fulfilled with { success: false } (no collection, or the write failed), or
\* rejected.
SaveResults == {"success", "failure", "rejected"}

\* Mutant of saveHandlers: a submission that did not succeed is made again.
saveHandlers_retry(result, pending) ==
    IF result = "success" THEN pending
    ELSE Append(pending, [by |-> clock + MaxLatency])

\* The handlers stopTraining attaches to the promise (.then and .catch): they
\* write to the console and call nothing, so the pending submissions stay as
\* they are.
saveHandlers(result, pending) == pending

\* A saveTrainingHistory promise settles and its handler runs.
HistoryResult ==
    /\ NothingDue
    /\ \E i \in 1..Len(saves), result \in SaveResults :
          /\ saves' = saveHandlers(result, RemoveAt(saves, i))
          /\ ev' = [op |-> "saved", result |-> result, stop |-> NoStop, cues |-> << >>]
    /\ UNCHANGED << appVars, clock, schedVars, submitted, ghostVars >>

\* ----------------------------------------------------------- specification

\* The pause and resume buttons.
PauseButton == NothingDue /\ pauseTraining
ResumeButton == NothingDue /\ resumeTraining

Next ==
    \/ Start
    \/ StopButton
    \/ PauseButton
    \/ ResumeButton
    \/ CountdownStep
    \/ CountdownEnd
    \/ FrameSkipped
    \/ FrameContinue
    \/ FrameThrow
    \/ FrameComplete
    \/ FrameComboAdvance
    \/ ComboTimeout
    \/ HistoryResult
    \/ Tock

Spec == Init /\ [][Next]_vars

\* A combo whose second routine is not in the catalog.  No shipped combo is
\* like it: it is the input for which startNextComboRoutine has its
\* "Routine not found" branch.
unresolvedCombo == Combo("unresolved", <<"led", "removed">>, "start")

\* The cards of the second specification: the combo above, a shipped combo
\* and a single routine.
SelectionsUnresolved ==
    { << FindRoutine(allAvailableRoutines, c.routines[1]), c >> :
        c \in { unresolvedCombo, routineCombos[2] } }
    \cup { << FindRoutine(allAvailableRoutines, "box"), NullCombo >> }

StartUnresolved ==
    NothingDue /\ \E sel \in Clickable(SelectionsUnresolved) : startCountdown(sel[1], sel[2])

NextUnresolved ==
    \/ StartUnresolved
    \/ StopButton
    \/ PauseButton
    \/ ResumeButton
    \/ CountdownStep
    \/ CountdownEnd
    \/ FrameSkipped
    \/ FrameContinue
    \/ FrameThrow
    \/ FrameComplete
    \/ FrameComboAdvance
    \/ ComboTimeout
    \/ HistoryResult
    \/ Tock

SpecUnresolved == Init /\ [][NextUnresolved]_vars

\* The routines handleCreateRoutine can save, one minute long, with every
\* phase between 0 and MaxPhaseSeconds and at least one phase above 0.
RoutineInputs ==
    { Routine("custom", 1, i, hi, e, ho, "") :
        i \in 0..MaxPhaseSeconds, hi \in 0..MaxPhaseSeconds,
        e \in 0..MaxPhaseSeconds, ho \in 0..MaxPhaseSeconds } \ { Routine("custom", 1, 0, 0, 0, 0, "") }

\* The card of the custom routine is clicked: the user has created one
\* routine, any of RoutineInputs, and every session of the run is started
\* from its card (currentRoutine still holds it after a stop).
StartCustom ==
    /\ NothingDue
    /\ \E r \in RoutineInputs :
          /\ currentRoutine \in { NullRoutine, r }
          /\ startCountdown(r, NullCombo)

\* The third specification: uninterrupted sessions of a custom routine.  The
\* user only starts sessions, so each session has one chain of ticks and ends
\* by completing (no combo holds a custom routine, so no combo advance
\* either).
NextCustom ==
    \/ StartCustom
    \/ CountdownStep
    \/ CountdownEnd
    \/ FrameContinue
    \/ FrameComplete
    \/ HistoryResult
    \/ Tock

SpecCustom == Init /\ [][NextCustom]_vars

\* ---------------------------------------------------------------------
\* One session that the user does not stop, under fair scheduling
\* ---------------------------------------------------------------------

\* The longest pause, in seconds.
MaxPause == 2

\* The cards of the fair specification: every custom routine of
\* RoutineInputs and the shipped combos.
FairSelections ==
    { << r, NullCombo >> : r \in RoutineInputs }
    \cup { << FindRoutine(allAvailableRoutines, c.routines[1]), c >> :
             c \in SeqRange(routineCombos) }

\* One session is started in a run.
StartFair ==
    /\ NothingDue
    /\ gSession = 0
    /\ \E sel \in FairSelections : startCountdown(sel[1], sel[2])

\* The user pauses the session once, at any time from the countdown on.
PauseOnce ==
    /\ isTrainingRunning /\ ~isPaused
    /\ pauseStartTime = 0
    /\ PauseButton

\* The user resumes the paused session.
ResumeFair == isPaused /\ ResumeButton

\* One second passes; the session is not left paused for more than MaxPause
\* seconds.  The clock has room for the longest session.
TockFair ==
    /\ clock < Epoch + 3 * Horizon
    /\ isPaused => clock - pauseStartTime < MaxPause
    /\ secondPasses

\* The steps that the browser and the user owe the session: timers and
\* frames fire, time passes, a pause is ended.
FairProgress ==
    \/ CountdownStep
    \/ CountdownEnd
    \/ FrameSkipped
    \/ FrameContinue
    \/ FrameComplete
    \/ FrameComboAdvance
    \/ ComboTimeout
    \/ HistoryResult
    \/ ResumeFair
    \/ TockFair

NextFair ==
    \/ StartFair
    \/ PauseOnce
    \/ FairProgress

\* The fifth specification: one session, not stopped by the user, paused at
\* most once and resumed, with weak fairness of the steps owed to it.
SpecFair == Init /\ [][NextFair]_vars /\ WF_vars(FairProgress)

\* ---------------------------------------------------------------------
\* A combo started right after a stopped countdown
\* ---------------------------------------------------------------------

\* A combo card is clicked.
StartCombo ==
    /\ NothingDue
    /\ \E c \in Clickable(SeqRange(routineCombos)) :
          startCountdown(FindRoutine(allAvailableRoutines, c.routines[1]), c)

\* The stop button during the countdown of the first session of the run.
\* This click is not taken from the budget of calls, which is left to the
\* starts and the pauses.
StopFirstCountdown ==
    /\ NothingDue
    /\ gSession = 1 /\ gState = "Countdown"
    /\ stopTraining(FALSE, frames)
    /\ ev' = [op |-> "stop", stop |-> StopInfo(FALSE), cues |-> << >>]
    /\ UNCHANGED << currentRoutine, currentCombo, comboRoutineIndex, comboStartTime,
                    routineStartTime, totalDurationSeconds, startTime, animationFrameId,
                    currentPhase, phaseStartTime, clock, intervals, timeouts,
                    gSession, gCalls >>

NextRestart ==
    \/ StartCombo
    \/ StopFirstCountdown
    \/ PauseButton
    \/ ResumeButton
    \/ CountdownStep
    \/ CountdownEnd
    \/ FrameSkipped
    \/ FrameContinue
    \/ FrameThrow
    \/ FrameComplete
    \/ FrameComboAdvance
    \/ ComboTimeout
    \/ HistoryResult
    \/ Tock

\* The sixth specification: sessions of the shipped combos, the first of
\* which may be stopped during its countdown, with pauses.
SpecRestart == Init /\ [][NextRestart]_vars

\* ---------------------------------------------------------------------
\* Creation of a custom routine (the form of the settings panel)
\* ---------------------------------------------------------------------

\* The value of parseInt for a text that holds no number.
NaN == -99

\* What the user may have typed in the name field, in the field of a phase
\* and in the field of the minutes.
NameTexts == { "", " ", "calm" }
FieldTexts == { "", "-1", "0", "1" }
MinutesTexts == { "", "0", "1.5" }

\* String.prototype.trim on the texts of NameTexts.
trim(text) == IF text = " " THEN "" ELSE text

\* parseInt on the texts of FieldTexts and MinutesTexts: the leading integer, sign included,
\* the rest of the text dropped; NaN when there is none.
parseInt(text) ==
    CASE text = "" -> NaN
      [] text = "-1" -> -1
      [] text = "0" -> 0
      [] text = "1" -> 1
      [] text = "1.5" -> 1

isNaN(n) == n = NaN

\* The test that makes handleCreateRoutine show the message and return.
rejected(name, inhale, holdIn, exhale, holdOut, minutes) ==
    \/ name = ""
    \/ isNaN(inhale) \/ isNaN(holdIn) \/ isNaN(exhale) \/ isNaN(holdOut)
    \/ isNaN(minutes)
    \/ minutes < 1
    \/ (inhale + holdIn + exhale + holdOut) = 0

\* The form is submitted with any texts in its fields.  An input that is not
\* rejected makes newRoutine, which is handed to saveCustomRoutine; the
\* snapshot of the collection gives it its id, here "custom".
handleCreateRoutine ==
    \E nameText \in NameTexts,
       inText, holdInText, outText, holdOutText \in FieldTexts,
       minutesText \in MinutesTexts :
        LET name == trim(nameText)
            inhale == parseInt(inText)
            holdIn == parseInt(holdInText)
            exhale == parseInt(outText)
            holdOut == parseInt(holdOutText)
            minutes == parseInt(minutesText)
            reject == rejected(name, inhale, holdIn, exhale, holdOut, minutes)
        IN  /\ ev' = [op |-> "create", stop |-> NoStop, cues |-> << >>,
                      name |-> name, inhale |-> inhale, holdIn |-> holdIn,
                      exhale |-> exhale, holdOut |-> holdOut, minutes |-> minutes,
                      saved |-> IF reject THEN << >>
                                ELSE << [Routine("custom", minutes, inhale, holdIn,
                                                 exhale, holdOut, "")
                                         EXCEPT !.name = name] >>]
            /\ UNCHANGED << appVars, clock, schedVars, submitted, saves, ghostVars >>

\* The fourth specification: the form is submitted any number of times, with
\* no session running.
SpecCreate == Init /\ [][handleCreateRoutine]_vars

\* ------------------------------------------------------------- properties

NoCallbackPending == intervals = << >> /\ timeouts = << >> /\ frames = << >>

\* The last step called stopTraining, and it handed an entry to
\* saveTrainingHistory.
StopCalled == ev.stop.called
StopSaved == Len(submitted) = ev.stop.entriesBefore + 1

\* The last step was a tick that ran the timing logic in the session that is
\* current, after that session's own countdown.
OwnTick ==
    /\ ev.op = "tick"
    /\ ev.ran
    /\ ~ev.stale
    /\ ev.inState = "Running"

\* C1: after stop() no scheduled re-entry (countdown interval, frame request,
\* combo-advance timeout) remains pending, and no callback of a stopped
\* session runs the countdown, runTraining or the routine switch later.
C1_StopCancelsEveryCallback ==
    /\ ~isTrainingRunning => NoCallbackPending
    /\ ~(ev.op \in {"countdown", "run", "timeout"} /\ ev.stale)

\* C2: a session submits at most one history entry, and a stop() that finds
\* no session running submits nothing.
C2_OneEntryPerSession ==
    /\ Len(submitted) <= 1
    /\ (StopCalled /\ ~ev.stop.wasRunning) => ~StopSaved

\* C3: in a tick in which the routine's elapsed time has reached its target
\* and the phase that was active has run its full duration (a phase boundary
\* at or after the target), completion fires: combo advance or stop.
C3_CompletesAtFirstBoundary ==
    (/\ OwnTick
     /\ ev.outcome # "throw"
     /\ ev.elapsedRoutine >= ev.routineDuration
     /\ ev.timeSince >= ev.durBefore)
    => ev.outcome \in {"advance", "abort", "stop"}

\* C4: natural completion (combo advance, or stop with completed = true) is
\* triggered only in a tick in which the pause-adjusted elapsed time of the
\* routine has reached durationMinutes*60 and the phase that was active at
\* the start of the tick has run for its full duration.
C4_CompletionOnlyWhenDue ==
    (OwnTick /\ ev.outcome \in {"advance", "stop"})
    => /\ ev.trueRoutine >= ev.routineDuration
       /\ ev.timeSince >= ev.durBefore

\* C5: in every tick elapsedRoutineTime is the time since routineStartTime less
\* the time paused since then, and elapsedTotalTime the time since the session
\* (or combo) started less the time the session spent paused.
C5_ElapsedArePauseAdjusted ==
    OwnTick => /\ ev.elapsedRoutine = ev.trueRoutine
               /\ ev.elapsedTotal = ev.trueTotal

\* C6: effectivePaused(now) is never greater than the wall-clock time elapsed
\* since the session's startTime.
C6_PausedWithinElapsed ==
    (isTrainingRunning /\ gState = "Running")
    => effectivePaused(clock) <= clock - startTime

\* C7: during a session, whatever pause and resume calls were made,
\* effectivePaused(now) is the wall-clock time during which paused was true.
C7_PausedIsTimeSpentPaused ==
    isTrainingRunning => effectivePaused(clock) = gPaused

\* C7 witness: a second pause was resumed, each having lasted some time.
C7_Witness ==
    /\ ev.op = "resume" /\ ev.accepted
    /\ clock > pauseStartTime
    /\ pausedTime > clock - pauseStartTime

\* C8: a start while a session runs, a pause when none runs or one is already
\* paused, and a resume when none runs or none is paused leave every session
\* field unchanged, schedule no callback and submit nothing.
C8_InvalidCallsAreNoOps ==
    [][ /\ (ev'.op = "start" /\ isTrainingRunning)
           => UNCHANGED << appVars, schedVars, submitted >>
        /\ (ev'.op = "pause" /\ (~isTrainingRunning \/ isPaused))
           => UNCHANGED << appVars, schedVars, submitted >>
        /\ (ev'.op = "resume" /\ (~isTrainingRunning \/ ~isPaused))
           => UNCHANGED << appVars, schedVars, submitted >> ]_vars

\* C8 witness: pause was called, later, while the session was paused already.
C8_Witness ==
    /\ ev.op = "pause" /\ ~ev.accepted
    /\ isTrainingRunning /\ isPaused
    /\ clock > pauseStartTime

\* C9: a stop() of a session that has left its countdown submits an entry if
\* and only if the time since it left the countdown, less the time it spent
\* paused (a pause still open included), is greater than 5 seconds.
C9_SavedIffOverFiveSeconds ==
    (StopCalled /\ ev.stop.inState = "Running")
    => (StopSaved <=> ev.stop.trueActual > MinHistorySeconds)

\* C9 witness: the stop button was pressed during a pause that lasted some
\* time, more than 5 un-paused seconds into the session, and an entry was
\* submitted.
C9_Witness ==
    /\ ev.op = "stop"
    /\ ev.stop.inState = "Running"
    /\ ev.stop.wasPaused
    /\ ev.stop.trueActual > MinHistorySeconds
    /\ ev.stop.trueActual < clock - startTime
    /\ StopSaved

\* C10: a stop() issued while the session is still in its countdown submits no
\* history entry.
C10_NoEntryFromCountdown ==
    (StopCalled /\ ev.stop.inState = "Countdown") => ~StopSaved

\* The phase durations of a routine add up to its cycle; the target of the
\* routine is a whole number of cycles.
cycleLength(routine) ==
    routine.inhale + routine.holdIn + routine.exhale + routine.holdOut
wholeCycles(routine) == routineDurationOf(routine) % cycleLength(routine) = 0

\* The last step was the natural completion of a single routine, in the first
\* session of the run and in a tick of that session.
SingleCompleted ==
    /\ OwnTick
    /\ ev.outcome = "stop"
    /\ currentCombo = NullCombo
    /\ gSession = 1

\* C11: a single routine whose target T is a whole number of cycles, paused
\* once while running for P > 0 seconds and resumed, completes T + P seconds
\* after startTime, and the entry it submits has actualDurationSeconds = T.
C11_OnePauseCompletesAtTargetPlusPause ==
    (/\ SingleCompleted
     /\ wholeCycles(currentRoutine)
     /\ ev.stop.calls = 2
     /\ ev.stop.pausedBeforeRun = 0
     /\ ev.stop.trueActual < clock - startTime)
    => /\ ev.stop.trueActual = routineDurationOf(currentRoutine)
       /\ StopSaved
       /\ submitted[Len(submitted)].actualDurationSeconds
            = routineDurationOf(currentRoutine)

\* C12: a single routine whose target T is a whole number of cycles, run
\* without a pause, completes in the tick in which the elapsed time reaches
\* T, whichever of its phases is the longer.
C12_UninterruptedCompletesAtTarget ==
    (/\ SingleCompleted
     /\ wholeCycles(currentRoutine)
     /\ ev.stop.calls = 1)
    => /\ clock - startTime = routineDurationOf(currentRoutine)
       /\ StopSaved
       /\ submitted[Len(submitted)].completed
       /\ submitted[Len(submitted)].actualDurationSeconds
            = routineDurationOf(currentRoutine)

\* C13: a tick in which a step throws ends the session through
\* stopTraining(false): the failure does not leave the callback, and no session
\* is left running without a pending callback that re-enters it.
C13_TickFailureStopsSession ==
    /\ (ev.op = "tick" /\ ev.ran /\ ev.outcome = "throw")
       => /\ StopCalled
          /\ ~ev.stop.completed
          /\ ~isTrainingRunning
    /\ isTrainingRunning => ~NoCallbackPending

\* C14: when the tick that ends a routine of a combo does not find the next
\* routine in the catalog, the session is stopped with completed = false, the
\* step schedules no timeout and requests no frame, and the entry for the
\* time elapsed so far is submitted exactly when that time is above 5 s.
C14_UnresolvedRoutineAborts ==
    [][ (/\ ev'.op = "tick" /\ ev'.ran /\ ev'.outcome = "abort"
         /\ ~ev'.stale /\ ev'.inState = "Running")
        => /\ ~isTrainingRunning'
           /\ ev'.stop.called /\ ~ev'.stop.completed
           /\ timeouts' = timeouts
           /\ intervals' = intervals
           /\ Len(frames') < Len(frames)
           /\ (Len(submitted') = Len(submitted) + 1)
                <=> (ev'.stop.trueActual > MinHistorySeconds)
           /\ Len(submitted') > Len(submitted)
                => /\ ~submitted'[Len(submitted')].completed
                   /\ submitted'[Len(submitted')].actualDurationSeconds
                        = ev'.stop.trueActual
                   /\ submitted'[Len(submitted')].name = currentCombo.name ]_vars

\* C14 witness: the first routine of the combo has run, the second is not in
\* the catalog, the session is stopped and its entry submitted.
C14_Witness ==
    /\ ev.op = "tick" /\ ev.ran /\ ev.outcome = "abort"
    /\ ~ev.stale /\ ev.inState = "Running"
    /\ currentCombo = unresolvedCombo
    /\ comboRoutineIndex = 1
    /\ ~isTrainingRunning
    /\ StopSaved

\* The value a session field has when no session was ever started.
IdleFields ==
    /\ ~isTrainingRunning
    /\ ~isPaused
    /\ pausedTime = 0
    /\ pauseStartTime = 0
    /\ currentRoutine = NullRoutine
    /\ currentCombo = NullCombo
    /\ comboRoutineIndex \in {0, -1}
    /\ startTime = 0
    /\ routineStartTime = 0
    /\ comboStartTime = 0
    /\ currentPhase \in {Undefined, 0}
    /\ phaseStartTime = 0

\* C15: after stop() every session field has its idle value again.
C15_StopResetsEveryField == StopCalled => IdleFields

\* C16: whenever a tick or resume() indexes the phase list, currentPhase is
\* an index of the phase list of the current routine.
C16_PhaseIndexValidWhenRead ==
    /\ (ev.op = "tick" /\ ev.ran) => ev.indexValid
    /\ (ev.op = "resume" /\ ev.accepted) => ~ev.threw

\* The target of the member routine of a combo, as the catalog gives it, and
\* the targets of the first n members added up.
memberTarget(id) ==
    (CHOOSE r \in SeqRange(allAvailableRoutines) : r.id = id).durationMinutes
        * SecondsPerMinute

RECURSIVE membersTarget(_, _)
membersTarget(combo, n) ==
    IF n = 0 THEN 0
    ELSE membersTarget(combo, n - 1) + memberTarget(combo.routines[n])

\* C17: when runTraining() has run for a combo, totalDurationSeconds is the
\* sum of the targets (durationMinutes times the seconds of a minute) of all
\* the routines the combo lists.
C17_ComboTargetIsSumOfMembers ==
    (ev.op = "run" /\ currentCombo # NullCombo)
    => totalDurationSeconds = membersTarget(currentCombo, Len(currentCombo.routines))

\* C17 witness: the morning combo (two routines of one minute) has left its
\* countdown with a target of two minutes.
C17_Witness ==
    /\ ev.op = "run" /\ ~ev.stale
    /\ gState = "Running"
    /\ currentCombo = routineCombos[1]
    /\ totalDurationSeconds = 2 * SecondsPerMinute

\* C18: an entry that stop() submits carries the combo's name and the combo's
\* total target when the session is a combo, the routine's name and target
\* otherwise, and completed = true exactly when the stop is the natural
\* completion found by a tick.
C18_EntryNamesSessionAndTrigger ==
    (StopCalled /\ StopSaved)
    => LET e == submitted[Len(submitted)] IN
       /\ e.completed <=> (ev.op = "tick" /\ ev.outcome = "stop")
       /\ IF currentCombo # NullCombo
          THEN /\ e.name = currentCombo.name
               /\ e.totalTargetSeconds
                    = membersTarget(currentCombo, Len(currentCombo.routines))
          ELSE /\ e.name = currentRoutine.name
               /\ e.totalTargetSeconds
                    = currentRoutine.durationMinutes * SecondsPerMinute

\* The fixed order of the phases, and the duration a routine gives a phase.
PhaseKeys == << "in", "holdIn", "out", "holdOut" >>
rankOfKey(key) == CHOOSE i \in 1..4 : PhaseKeys[i] = key
durationOfKey(routine, key) ==
    CASE key = "in" -> routine.inhale
      [] key = "holdIn" -> routine.holdIn
      [] key = "out" -> routine.exhale
      [] key = "holdOut" -> routine.holdOut

\* The phase list handed to the update loop that the last step started.
startedPhases == frames[Len(frames)].phases

\* C19: the phase list built when a routine starts holds, in the order in,
\* holdIn, out, holdOut, exactly the phases to which the routine gives a
\* duration above 0, each with that duration; it has 1 to 4 entries.
C19_PhaseListIsNonzeroSubsequence ==
    (ev.op \in {"run", "timeout"})
    => /\ Len(startedPhases) \in 1..4
       /\ \A i \in 1..Len(startedPhases) :
             /\ startedPhases[i].key \in SeqRange(PhaseKeys)
             /\ startedPhases[i].duration > 0
             /\ startedPhases[i].duration
                  = durationOfKey(currentRoutine, startedPhases[i].key)
       /\ \A i, j \in 1..Len(startedPhases) :
             i < j => rankOfKey(startedPhases[i].key) < rankOfKey(startedPhases[j].key)
       /\ \A k \in SeqRange(PhaseKeys) :
             durationOfKey(currentRoutine, k) > 0
             => \E i \in 1..Len(startedPhases) : startedPhases[i].key = k

\* C19 witness: a routine of two holds only (no inhale, no exhale) has
\* started with the list holdIn, holdOut.
C19_Witness ==
    /\ ev.op = "run"
    /\ currentRoutine.inhale = 0 /\ currentRoutine.exhale = 0
    /\ currentRoutine.holdIn = 2 /\ currentRoutine.holdOut = 1
    /\ Len(startedPhases) = 2
    /\ startedPhases[1].key = "holdIn" /\ startedPhases[2].key = "holdOut"

\* The indexes that n advances visit, starting after index.
RECURSIVE orbit(_, _, _)
orbit(phases, index, n) ==
    IF n = 0 THEN << >>
    ELSE << advance(phases, index) >> \o orbit(phases, advance(phases, index), n - 1)

\* C20: a tick that advances the phase moves the index to the next one of the
\* list, from the last one to 0; as many advances as the list has phases
\* visit every index once, in list order, and end on the index they left.
C20_AdvanceIsCyclic ==
    (ev.op = "tick" /\ ev.ran /\ ev.outcome = "continue" /\ ev.advanced)
    => LET n == Len(startedPhases)
           o == orbit(startedPhases, ev.phaseBefore, n)
       IN /\ currentPhase \in 0..(n - 1)
          /\ currentPhase = IF ev.phaseBefore = n - 1 THEN 0 ELSE ev.phaseBefore + 1
          /\ o[1] = currentPhase
          /\ o[n] = ev.phaseBefore
          /\ { o[k] : k \in 1..n } = 0..(n - 1)
          /\ \A k \in 1..(n - 1) :
                o[k + 1] = IF o[k] = n - 1 THEN 0 ELSE o[k] + 1

\* C20 witness: in a list of four phases the tick has advanced from the last
\* phase to the first.
C20_Witness ==
    /\ ev.op = "tick" /\ ev.ran /\ ev.outcome = "continue" /\ ev.advanced
    /\ Len(startedPhases) = 4
    /\ ev.phaseBefore = 3
    /\ currentPhase = 0

\* The time from the start of an uninterrupted routine to its k-th advance:
\* the durations of the first k phases of the cycle added up.
RECURSIVE advanceTime(_, _)
advanceTime(phases, k) ==
    IF k = 0 THEN 0
    ELSE advanceTime(phases, k - 1) + phases[((k - 1) % Len(phases)) + 1].duration

\* The last step was the k-th advance of the first session of the run, an
\* uninterrupted session of a routine of four phases that started at index 0.
FourPhaseAdvance(k) ==
    /\ ev.op = "tick" /\ ev.ran /\ ev.outcome = "continue" /\ ev.advanced
    /\ gSession = 1
    /\ Len(startedPhases) = 4
    /\ clock - startTime = advanceTime(startedPhases, k)

\* C21 as stated: the 5th advance of a routine of four phases returns the
\* phase index to 0.
C21_FifthAdvanceReturnsToZero == FourPhaseAdvance(5) => currentPhase = 0

\* C21, amended: the 4th advance of a routine of four phases returns the
\* phase index to 0, and the 5th moves it to 1.
C21_FourthAdvanceReturnsToZero ==
    /\ FourPhaseAdvance(4) => currentPhase = 0
    /\ FourPhaseAdvance(5) => currentPhase = 1

\* C21 witness: a routine of four phases has made its 5th advance.
C21_Witness == FourPhaseAdvance(5) /\ ev.phaseBefore = 0 /\ currentPhase = 1

\* The last step was a tick that reached updateProgressBar.
Projected == ev.op = "tick" /\ ev.ran /\ ev.indexValid

CueFailed == ev.op = "tick" /\ ev.ran /\ ev.cueFailed

\* The tick of the last step requested the next frame of its own loop.
Rearmed ==
    /\ Len(frames) > 0
    /\ frames[Len(frames)].loop = ev.loop
    /\ frames[Len(frames)].held /\ ~frames[Len(frames)].due
    /\ animationFrameId = 1

\* C23: a tick whose cue fails does what it decides from the state alone, as
\* the tick whose cue is played does: the phase index and the start of the
\* phase are those of the advance, the outcome is the one decided, a
\* continuing tick requests the next frame and a completing one stops.
C23_CueFailureChangesNothing ==
    CueFailed
    => /\ ev.outcome = (IF ev.decided = "advance" /\ ev.stop.called
                        THEN "abort" ELSE ev.decided)
       /\ ev.advanced
       /\ currentPhase = ev.phaseAfter
       /\ phaseStartTime = clock
       /\ ev.decided = "continue" => Rearmed
       /\ ev.decided = "stop" => ev.stop.called /\ ev.stop.completed

\* C23 witness: a tick advanced the phase, its cue failed, and the next frame
\* is requested.
C23_Witness ==
    /\ CueFailed
    /\ ev.outcome = "continue"
    /\ currentPhase # ev.phaseBefore
    /\ Rearmed

\* C24: stopTraining leaves the session reset in the step that hands the
\* entry to the store, with the submission still pending; the step in which
\* the result arrives, whatever the result, changes nothing of the session
\* and makes no further submission.
C24_SubmissionOutcomeIsIgnored ==
    [][ /\ (ev'.stop.called /\ Len(saves') > Len(saves))
           => /\ ~isTrainingRunning' /\ ~isPaused'
              /\ pausedTime' = 0 /\ pauseStartTime' = 0
              /\ gState' = "Idle"
        /\ ev'.op = "saved"
           => /\ UNCHANGED << appVars, clock, schedVars, submitted, ghostVars >>
              /\ Len(saves') = Len(saves) - 1 ]_vars

\* C24 witness: the submission of a stopped session fails while the
\* countdown of the next session runs.
C24_Witness ==
    /\ ev.op = "saved" /\ ev.result = "failure"
    /\ gState = "Countdown" /\ gSession = 2
    /\ saves = << >>

\* C25: at every moment at most one update loop has a frame requested, and a
\* callback that acts on the session (a countdown step, runTraining, the
\* timeout of the combo advance, a tick that is not skipped) belongs to the
\* session that is current.
C25_OneChainOfCurrentSession ==
    /\ Len(frames) <= 1
    /\ ev.op = "tick" => (ev.ran => ~ev.stale)
    /\ ev.op \in {"countdown", "run", "timeout"} => ~ev.stale

\* Two update loops of different sessions have a frame requested while the
\* later session runs.
C25_TwoChains ==
    /\ Len(frames) = 2
    /\ frames[1].sid # frames[2].sid
    /\ gState = "Running" /\ gSession = 2

\* The last step was the tick that ended the first phase of the routine in
\* the first session of the run: the phase had started with the routine, so
\* the time spent in it unpaused is the unpaused time of the routine.
FirstPhaseEnded ==
    /\ OwnTick /\ gSession = 1
    /\ ev.advanced
    /\ ev.phaseBefore = 0
    /\ ev.timeSince = clock - routineStartTime

\* C26: a phase is advanced only when the time spent in it unpaused has
\* reached its duration, whether or not it was interrupted by a pause.
C26_PauseDoesNotShortenPhase ==
    FirstPhaseEnded => ev.trueRoutine >= ev.durBefore

\* A phase that was never paused lasts its duration.
C26_UnpausedPhaseLastsItsDuration ==
    (FirstPhaseEnded /\ ev.trueRoutine = ev.timeSince)
    => ev.trueRoutine = ev.durBefore

\* C27: while the session is paused no callback of the session writes a
\* timing field: a tick only requests the next frame, and neither the end of
\* the countdown nor the timeout of the combo advance runs its assignments.
\* (No callback writes isPaused, so a callback that leaves the session paused
\* found it paused.)
C27_PausedSessionIsFrozen ==
    isPaused
    => /\ ev.op = "tick" => (~ev.ran /\ Rearmed)
       /\ ev.op \in {"run", "timeout"} => ev.stale

\* The timeout of the combo advance fired while the session was paused, and
\* made the next routine current.
C27_TimeoutWhilePaused ==
    /\ isPaused /\ gSession = 1 /\ gState = "Running"
    /\ ev.op = "timeout" /\ ~ev.stale
    /\ comboRoutineIndex = 1
    /\ currentRoutine.id = currentCombo.routines[2]
    /\ routineStartTime = clock /\ phaseStartTime = clock /\ currentPhase = 0

\* The routine the combo names at its current index, looked up in the
\* catalog; NullRoutine without a combo.
resolvedRoutine ==
    IF currentCombo # NullCombo /\ comboRoutineIndex + 1 \in 1..Len(currentCombo.routines)
    THEN FindRoutine(allAvailableRoutines, currentCombo.routines[comboRoutineIndex + 1])
    ELSE NullRoutine

\* What C28 says of one step.  The tick that triggers the combo advance adds
\* one to the index and schedules the timeout; while the timeout is pending no
\* tick runs and no callback changes the routine, the index or the phase; the
\* timeout makes the resolved routine current, restarts the routine and the
\* phase at the present instant and leaves exactly one frame requested.
ComboAdvanceStep ==
    /\ (ev'.op = "tick" /\ ev'.ran /\ ev'.outcome = "advance")
       => /\ comboRoutineIndex' = comboRoutineIndex + 1
          /\ Len(timeouts') = Len(timeouts) + 1
          /\ timeouts'[Len(timeouts')].due = clock + TransitionSeconds
    /\ (timeouts # << >> /\ ev'.op = "tick") => ~ev'.ran
    /\ (timeouts # << >> /\ ev'.op \in {"tick", "countdown", "run", "saved", "tock"})
       => UNCHANGED << currentRoutine, comboRoutineIndex, currentPhase, phaseStartTime >>
    /\ ev'.op = "timeout"
       => /\ Len(timeouts) = 1
          /\ comboRoutineIndex' = comboRoutineIndex
          /\ currentRoutine' = resolvedRoutine /\ currentRoutine' # NullRoutine
          /\ routineStartTime' = clock /\ phaseStartTime' = clock
          /\ currentPhase' = 0
          /\ Len(frames') = 1 /\ frames'[1].loop = "combo"

\* C28: every step of the combo advance is as described, in every session.
C28_ComboAdvanceIsOrderly == [][ComboAdvanceStep]_vars

\* The same in the first session of a run, where no callback of a stopped
\* session is left.
C28_OrderlyInFirstSession ==
    [][(gSession' = 1 /\ gState' # "Idle") => ComboAdvanceStep]_vars

\* The countdown of the session that is current, step by step: the accepted
\* start plays the cue of 3 and arms the interval; the steps 1 and 2 seconds
\* later play the cues of 2 and 1; the step 3 seconds later plays no start cue
\* and calls runTraining, which records startTime and routineStartTime, and
\* comboStartTime exactly when a combo runs.
OwnCountdown ==
    /\ (ev.op = "start" /\ ev.accepted)
       => /\ ev.cues = << "start" >>
          /\ gState = "Countdown"
          /\ intervals[Len(intervals)]
               = [countdown |-> CountdownFrom, due |-> clock + IntervalSeconds,
                  started |-> clock, sid |-> gSession]
    /\ (ev.op = "countdown" /\ ~ev.stale)
       => /\ ev.n \in {2, 1}
          /\ ev.elapsed = (CountdownFrom - ev.n) * IntervalSeconds
          /\ ev.cues = << "start" >>
          /\ gState = "Countdown"
    /\ (ev.op = "run" /\ ~ev.stale)
       => /\ ev.n = 0
          /\ ev.elapsed = CountdownFrom * IntervalSeconds
          /\ Len(ev.cues) = 1
          /\ ev.cues[1].key \in {"in", "holdIn", "out", "holdOut"}
          /\ gState = "Running" /\ gStart = clock
          /\ startTime = clock /\ routineStartTime = clock
          /\ (comboStartTime = clock) = (currentCombo # NullCombo)
          /\ (comboStartTime = 0) = (currentCombo = NullCombo)

\* During the countdown of the current session nothing but its own steps
\* acts: no tick runs the timing logic and no other callback calls
\* runTraining or switches the routine.
QuietCountdown ==
    gState = "Countdown"
    => /\ ev.op = "tick" => ~ev.ran
       /\ ev.op # "run" /\ ev.op # "timeout"

\* C29: an accepted start is followed by the countdown steps at 1, 2 and 3
\* seconds with the start cues of 3, 2 and 1; the session is Running from the
\* third step, which records the start times; no tick runs before it.
C29_CountdownOfThreeSteps == OwnCountdown /\ QuietCountdown

\* The same for the first session of a run.
C29_FirstCountdownOfThreeSteps == OwnCountdown /\ (gSession = 1 => QuietCountdown)

\* The segments of the combo's track with the built-in routines alone.
builtInSegments == segmentWidths(currentCombo, builtInRoutines)

\* C30: in a combo session the segments that runTraining lays out at the
\* start and the segments that every tick computes are the same, segment i
\* being 100 * duration_i / totalDuration wide, whatever the listener has
\* made of the custom routines in between.
C30_SegmentsAreStable ==
    (/\ currentCombo # NullCombo
     /\ \/ ev.op = "run"
        \/ ev.op = "tick" /\ ev.ran /\ ev.indexValid)
    => /\ ev.segments = builtInSegments
       /\ \A i \in 1..Len(ev.segments) :
             /\ ev.segments[i].den = membersTarget(currentCombo, Len(currentCombo.routines))
             /\ ev.segments[i].num
                  = 100 * routineDurationOf(
                              FindRoutine(builtInRoutines, currentCombo.routines[i]))

\* C30 witness: a tick of the second routine of a combo reads a catalog that
\* the listener has changed since init().
C30_Witness ==
    /\ currentCombo # NullCombo /\ comboRoutineIndex = 1
    /\ ev.op = "tick" /\ ev.ran /\ ev.indexValid
    /\ ev.catalogChanged
    /\ Len(ev.segments) = 2
    /\ ev.segments[1].num + ev.segments[2].num = 100 * ev.segments[1].den

\* The prefix [0, percent] of a segmented track: every segment that starts
\* below percent, up to its end or to percent, in the colour of its
\* position.  Same units as filledColorStops.
RECURSIVE trackPrefix(_, _, _, _)
trackPrefix(widths, percent, i, cumulative) ==
    IF i > Len(widths) \/ cumulative >= percent THEN << >>
    ELSE << [colour |-> (i - 1) % PaletteSize, from |-> cumulative,
             to |-> IF cumulative + widths[i] <= percent
                    THEN cumulative + widths[i] ELSE percent] >>
         \o trackPrefix(widths, percent, i + 1, cumulative + widths[i])

\* The last step was a tick of the first session of the run, a combo, that
\* reached updateProgressBar.
ComboProjected ==
    /\ OwnTick /\ ev.indexValid
    /\ gSession = 1
    /\ currentCombo # NullCombo

\* C31: on every tick of a combo the spans emitted are the prefix
\* [0, percent] of the segmented track: full spans for the segments below
\* percent, the span up to percent for the segment that holds it, colour
\* i mod 4 for segment i.
C31_SpansArePrefixOfTrack ==
    ComboProjected
    => ev.spans = trackPrefix([i \in 1..Len(ev.segments) |->
                                   ev.segments[i].num * ev.progress.den],
                              ev.progress.num * ev.segments[1].den, 1, 0)

\* The same for the ticks at which the percent has not passed the end of the
\* segment of the routine that is running.
C31_PrefixWithinCurrentSegment ==
    (/\ ComboProjected
     /\ ev.elapsedTotal
          <= SumDurations(SubSeq(currentCombo.routines, 1, ev.comboIndexBefore + 1),
                          builtInRoutines))
    => ev.spans = trackPrefix([i \in 1..Len(ev.segments) |->
                                   ev.segments[i].num * ev.progress.den],
                              ev.progress.num * ev.segments[1].den, 1, 0)

\* A tick of the first routine of a combo whose percent is past the first
\* segment emits the first segment alone.
C31_SecondSegmentMissing ==
    /\ ComboProjected
    /\ ev.comboIndexBefore = 0
    /\ ev.progress.num * ev.segments[1].den > ev.segments[1].num * ev.progress.den
    /\ Len(ev.spans) = 1
    /\ ev.spans[1].to = ev.segments[1].num * ev.progress.den

\* What C32 says of one step.  comboStartTime is written by no step but the
\* one in which the current session leaves its countdown; in particular the
\* tick that triggers a combo advance and the timeout that completes it
\* leave it alone.  A tick of a combo measures the total elapsed time from
\* comboStartTime: the loop of a later routine takes all of the time since
\* then, the loop of the first routine takes off the paused time, which is
\* never negative; so with comboStartTime fixed the elapsed time of a later
\* segment is not below that of an earlier one, and neither is the percent.
ComboClockStep ==
    /\ comboStartTime' # comboStartTime => (ev'.op = "run" /\ ~ev'.stale)
    /\ (ev'.op = "timeout" \/ (ev'.op = "tick" /\ ev'.outcome = "advance"))
       => comboStartTime' = comboStartTime
    /\ (ev'.op = "tick" /\ ev'.ran /\ currentCombo # NullCombo /\ comboStartTime # 0)
       => /\ ev'.loop = "combo" => ev'.elapsedTotal = clock - comboStartTime
          /\ ev'.loop = "run"
             => /\ ev'.elapsedTotal <= clock - comboStartTime
                /\ ev'.elapsedTotal = (clock - comboStartTime) - pausedTime
                /\ pausedTime >= 0

\* C32: comboStartTime is written only when the session goes from its
\* countdown to Running and not by a combo advance, and the total elapsed
\* time of a combo does not decrease from one segment to the next.
C32_ComboStartTimeIsFixed == [][ComboClockStep]_vars

\* The same in the first session of a run while it is not stopped.
C32_FixedInFirstSession ==
    [][(gSession' = 1 /\ gState' # "Idle") => ComboClockStep]_vars

\* runTraining, called by the interval of a stopped countdown, writes
\* comboStartTime with no session running.
C32_WrittenWhenIdle ==
    /\ ev.op = "run" /\ ev.stale
    /\ gState = "Idle"
    /\ currentCombo # NullCombo /\ comboStartTime = clock

\* The Routine invariant of the glossary.
RoutineInvariant(r) ==
    /\ r.inhale >= 0 /\ r.holdIn >= 0 /\ r.exhale >= 0 /\ r.holdOut >= 0
    /\ r.inhale + r.holdIn + r.exhale + r.holdOut > 0
    /\ r.durationMinutes >= 1
    /\ r.name # ""

\* The fields of the submitted form, as parsed, make a routine that
\* satisfies the Routine invariant.
ValidForm ==
    /\ ~isNaN(ev.inhale) /\ ~isNaN(ev.holdIn) /\ ~isNaN(ev.exhale)
    /\ ~isNaN(ev.holdOut) /\ ~isNaN(ev.minutes)
    /\ ev.inhale >= 0 /\ ev.holdIn >= 0 /\ ev.exhale >= 0 /\ ev.holdOut >= 0
    /\ ev.inhale + ev.holdIn + ev.exhale + ev.holdOut > 0
    /\ ev.minutes >= 1
    /\ ev.name # ""

\* C33: every routine that the creation of a custom routine passes to
\* persistence satisfies the Routine invariant, so its phase list is not
\* empty; an input that violates the invariant is rejected and no routine is
\* created.
C33_CreatedRoutineIsValid ==
    ev.op = "create"
    => /\ \A i \in 1..Len(ev.saved) :
             /\ RoutineInvariant(ev.saved[i])
             /\ buildPhases(ev.saved[i]) # << >>
       /\ ~ValidForm => ev.saved = << >>

\* What the test of handleCreateRoutine does guarantee of a saved routine: a
\* name, a whole number of minutes that is at least 1, a sum of phases that
\* is not 0; and a valid form is always saved.
C33_SavedHasNameMinutesAndNonZeroSum ==
    ev.op = "create"
    => /\ \A i \in 1..Len(ev.saved) :
             /\ ev.saved[i].name # ""
             /\ ev.saved[i].durationMinutes >= 1
             /\ ev.saved[i].inhale + ev.saved[i].holdIn
                  + ev.saved[i].exhale + ev.saved[i].holdOut # 0
       /\ ValidForm => Len(ev.saved) = 1

\* A routine with a negative phase is saved, and its phase list is empty.
C33_NegativePhaseSaved ==
    /\ ev.op = "create"
    /\ Len(ev.saved) = 1
    /\ ev.saved[1].inhale < 0
    /\ buildPhases(ev.saved[1]) = << >>


\* The last step entered a phase: runTraining or the timeout of a combo
\* advance entered the first phase of a routine, or a tick advanced.
PhaseEntry ==
    \/ ev.op \in {"run", "timeout"}
    \/ ev.op = "tick" /\ ev.ran /\ ev.advanced

\* The circle transition of each kind of phase, from the glossary: scale 1.0
\* over the duration for in, 1.0 over 0.1 s for holdIn, 0.5 over the duration
\* for out, 0.5 over 0.1 s for holdOut (in tenths).
circleOfKey(key, duration) ==
    CASE key = "in" -> [scale |-> 10, duration |-> 10 * duration]
      [] key = "holdIn" -> [scale |-> 10, duration |-> 1]
      [] key = "out" -> [scale |-> 5, duration |-> 10 * duration]
      [] key = "holdOut" -> [scale |-> 5, duration |-> 1]

\* The step emitted one phase cue and one circle transition, those of the
\* phase the session is in after the step.
OneCueOneCircle ==
    LET phases == buildPhases(currentRoutine)
        phaseCues == SelectSeq(ev.cues, LAMBDA c : c.key \in SeqRange(PhaseKeys))
    IN  /\ currentPhase >= 0 /\ currentPhase < Len(phases)
        /\ phaseCues = << [key |-> phases[currentPhase + 1].key,
                           duration |-> phases[currentPhase + 1].duration] >>
        /\ ev.circle = << circleOfKey(phases[currentPhase + 1].key,
                                      phases[currentPhase + 1].duration) >>

\* C34: on every phase entry (first phase of a routine, every advance, first
\* phase after a combo advance) exactly one cue is emitted, with the key and
\* the duration of the phase, and exactly one circle transition, to the
\* scale and over the time of that kind of phase.
C34_PhaseEntryCueAndCircle == PhaseEntry => OneCueOneCircle

\* The same for the steps of the first session of a run while it is not
\* stopped.
C34_FirstSessionCueAndCircle ==
    (PhaseEntry /\ gSession = 1 /\ gState # "Idle") => OneCueOneCircle

\* A tick of a loop that was started for another routine enters a phase of
\* its own list, which the current routine does not have at that index.
C34_CueOfAnotherRoutine ==
    /\ ev.op = "tick" /\ ev.ran /\ ev.advanced
    /\ gState = "Running"
    /\ Len(ev.cues) >= 1
    /\ currentPhase < Len(buildPhases(currentRoutine))
    /\ ev.cues[1].key \in SeqRange(PhaseKeys)
    /\ ev.cues[1] # [key |-> buildPhases(currentRoutine)[currentPhase + 1].key,
                     duration |-> buildPhases(currentRoutine)[currentPhase + 1].duration]


\* The session has ended by stopTraining(true), called by a tick.
NaturalCompletion ==
    /\ gState = "Idle"
    /\ isTrainingRunning = FALSE
    /\ ev.op = "tick" /\ ev.outcome = "stop"
    /\ ev.stop.called /\ ev.stop.completed

\* C35: under fair ticking a running session that the user does not stop and
\* does not leave paused forever reaches natural completion, stopTraining(true)
\* and Idle, whatever the phase durations of the routine, and a combo does
\* after its last routine.
C35_RunningSessionCompletes ==
    (gState = "Running")
    ~> (NaturalCompletion
        /\ (currentCombo # NullCombo
            => comboRoutineIndex = Len(currentCombo.routines) - 1))

\* A combo that was paused for some time completes in its last routine.
C35_Witness ==
    /\ NaturalCompletion
    /\ ev.trueTotal < clock - startTime
    /\ currentCombo # NullCombo
    /\ comboRoutineIndex = Len(currentCombo.routines) - 1


\* C36: every history entry submitted with completed = true has an
\* actualDurationSeconds that is at least its totalTargetSeconds, for single
\* routines and for combos, whatever pauses were taken.
C36_CompletedEntryReachesTarget ==
    \A i \in 1..Len(submitted) :
        submitted[i].completed
        => submitted[i].actualDurationSeconds >= submitted[i].totalTargetSeconds

\* The same for the sessions of a single routine.
C36_CompletedSingleReachesTarget ==
    \A i \in 1..Len(submitted) :
        (submitted[i].completed /\ currentCombo = NullCombo)
        => submitted[i].actualDurationSeconds >= submitted[i].totalTargetSeconds

\* A combo that was paused in its last routine is submitted as completed
\* with less than its target.
C36_CompletedComboBelowTarget ==
    /\ NaturalCompletion
    /\ currentCombo # NullCombo
    /\ ev.loop = "combo"
    /\ Len(submitted) = 1
    /\ submitted[1].completed
    /\ submitted[1].actualDurationSeconds < submitted[1].totalTargetSeconds


\* What C37 says of one step.  An accepted start sets the index to 0 with a
\* combo and to -1 without; no other step changes it but the tick that
\* triggers a combo advance, which adds one; in a session the index is -1
\* without a combo and below the number of members with one; the tick that
\* triggers a combo advance ends the routine the combo names at the index,
\* and the tick that stops a combo as completed ends the routine it names at
\* the last index.
ComboIndexStep ==
    /\ (ev'.op = "start" /\ ev'.accepted)
       => comboRoutineIndex' = IF currentCombo' # NullCombo THEN 0 ELSE -1
    /\ comboRoutineIndex' # comboRoutineIndex
       => \/ ev'.op = "start" /\ ev'.accepted
          \/ /\ ev'.op = "tick" /\ ev'.ran /\ ev'.outcome \in {"advance", "abort"}
             /\ comboRoutineIndex' = comboRoutineIndex + 1
    /\ gSession' >= 1
       => IF currentCombo' = NullCombo THEN comboRoutineIndex' = -1
          ELSE comboRoutineIndex' \in 0..(Len(currentCombo'.routines) - 1)
    /\ (ev'.op = "tick" /\ ev'.ran /\ ev'.outcome = "advance")
       => currentRoutine = resolvedRoutine
    /\ (ev'.op = "tick" /\ ev'.ran /\ ev'.outcome = "stop" /\ currentCombo # NullCombo)
       => /\ comboRoutineIndex = Len(currentCombo.routines) - 1
          /\ currentRoutine = resolvedRoutine

C37_OrderlyInFirstSession ==
    [][(gSession' = 1 /\ gState # "Idle") => ComboIndexStep]_vars


\* A combo is stopped as completed at its last index while its first routine
\* is still the current one: the second routine never ran.
C37_SecondRoutineSkipped ==
    /\ ev.op = "tick" /\ ev.ran /\ ev.outcome = "stop"
    /\ ev.stop.completed
    /\ currentCombo # NullCombo
    /\ comboRoutineIndex = Len(currentCombo.routines) - 1
    /\ currentRoutine.id = currentCombo.routines[1]

\* The ids the shipped combos list.
shippedComboIds ==
    UNION { SeqRange(routineCombos[i].routines) : i \in 1..Len(routineCombos) }

\* Every id a shipped combo lists is the id of a built-in routine, and find
\* returns that routine in every catalog a tick can read.
shippedIdsResolve ==
    \A id \in shippedComboIds :
        /\ FindRoutine(builtInRoutines, id) # NullRoutine
        /\ \A catalog \in CatalogReads :
              FindRoutine(catalog, id) = FindRoutine(builtInRoutines, id)

\* C38: every id a shipped combo lists resolves to a built-in routine, in
\* the catalog as shipped and in every catalog a tick can read while custom
\* routines are added and deleted; so no tick of a session of a shipped
\* combo takes the branch of the unresolved id, and the routine a combo
\* advance schedules and makes current is a built-in one.
C38_ShippedComboNeverAborts ==
    /\ shippedIdsResolve
    /\ (ev.op = "tick" /\ ev.ran) => ev.outcome # "abort"
    /\ \A i \in 1..Len(timeouts) : timeouts[i].nextRoutine \in SeqRange(builtInRoutines)
    /\ ev.op = "timeout" => currentRoutine \in SeqRange(builtInRoutines)

\* A tick triggers the combo advance while the catalog holds other custom
\* routines than at the start (one of them with the id of a built-in
\* routine), and the routine it schedules is the built-in one.
C38_Witness ==
    /\ ev.op = "tick" /\ ev.ran /\ ev.outcome = "advance"
    /\ ev.catalogChanged
    /\ Len(timeouts) = 1
    /\ timeouts[1].nextRoutine = FindRoutine(builtInRoutines,
                                             currentCombo.routines[comboRoutineIndex + 1])


====
